---- MODULE Spec2Model ----
(***************************************************************************)
(* Model of the sales store of the Facturador (src/database.py) and of the *)
(* save-and-generate handler of its main window (src/facturador.py).       *)
(*                                                                         *)
(* The SQLite connection is modelled by two copies of the tables: `db` is  *)
(* what is durable on disk, `conn` is what the open connection sees (the   *)
(* durable tables plus the writes of the transaction that is still open).  *)
(* conn.commit() makes db equal to conn; a process crash discards the open *)
(* transaction, so the next connection sees db.                            *)
(***************************************************************************)
EXTENDS Integers, Sequences, FiniteSets, TLC

VARIABLES
    year,       \* calendar year read by datetime.now().year
    db,         \* durable tables
    conn,       \* tables as seen through self.conn (open transaction included)
    returned,   \* history: per key, the values returned to the callers
    last,       \* history: the last operation, its arguments and its result
    iniciadas,  \* history: the series keys for which a call has been started
    llamadas,   \* history: numbering calls and store operations started so far
    gui,        \* main window: self.items, the IRPF entry and the totals labels
    disco       \* the paths at which a file exists on disk

vars == <<year, db, conn, returned, last, iniciadas, llamadas, gui, disco>>

\* ---------------------------------------------------------------- bounds
MaxTicks == 1
\* numbering calls, and store operations, in one run
MaxLlamadas == 3
MaxOps == 4
MaxVentas == 2
MaxItems == 2

\* ------------------------------------------------------------- constants
\* the calendar years the clock goes through
Years == 2025 .. (2025 + MaxTicks)

Year0 == CHOOSE y \in Years : \A z \in Years : y <= z

ESTADOS == <<"borrador", "presupuestado", "aceptado", "albaranado", "facturado", "pagado">>

Tipos == {"presupuesto", "albaran", "factura"}

\* series codes the callers pass (config defaults 'P', 'AL', 'A')
SeriesCodes == {<<"P">>, <<"A">>}

NoOp == [op |-> "init"]

\* SQL NULL / Python None
NULL == "NULL"

\* tax IDs and names of the clients the callers pass
Nifs == {"N1", "N2"}
Nombres == {"Ana", "Eva"}

\* item lists the callers pass
Item1 == [descripcion |-> "Consulting", cantidad |-> 10, unidad |-> "unidad",
          precio_unitario |-> 50, iva |-> 21, subtotal |-> 500]
Item2 == [descripcion |-> "Licence", cantidad |-> 1, unidad |-> "unidad",
          precio_unitario |-> 20, iva |-> 10, subtotal |-> 20]
ItemsInputs == {<<>>, <<Item1>>, <<Item1, Item2>>}

\* what the user types in the item entries (an empty description included)
ItemEntradas ==
    {[descripcion |-> "Consulting", cantidad |-> 10, precio |-> 50, iva |-> 21],
     [descripcion |-> "Licence", cantidad |-> 1, precio |-> 20, iva |-> 10],
     [descripcion |-> "", cantidad |-> 1, precio |-> 20, iva |-> 21]}

\* what the user types in the IRPF entry, with the percentage meant (tenths)
IrpfEntradas ==
    {[texto |-> <<"0">>, decimas |-> 0],
     [texto |-> <<"1", "5">>, decimas |-> 150],
     [texto |-> <<"7", ",", "5">>, decimas |-> 75],
     [texto |-> <<"x">>, decimas |-> 0]}

\* the text venta_data's withholding percentage is computed from
IrpfVentaData == {<<"1", "5">>}

\* values of venta_data['estado'] the callers pass (NULL: key absent)
EstadosVentaData == {NULL, "facturado"}

\* document numbers, dates and paths the callers of registrar_documento pass
DocInputs ==
    {[numero |-> <<"A", "-", "2", "0", "2", "5", "-", "0", "0", "0", "1">>,
      fecha_emision |-> "01/02/2025", ruta_pdf |-> NULL],
     [numero |-> <<"A", "-", "2", "0", "2", "5", "-", "0", "0", "0", "2">>,
      fecha_emision |-> "03/04/2025", ruta_pdf |-> "Facturas/2025/Factura_A-2025-0002.pdf"]}

\* ------------------------------------------------------------- helpers
Upd(f, k, v) == [x \in (DOMAIN f) \cup {k} |-> IF x = k THEN v ELSE f[x]]

Del(f, k) == [x \in (DOMAIN f) \ {k} |-> f[x]]

EmptyFn == [x \in {} |-> 0]

\* the tables created by crear_tablas, all empty
crear_tablas ==
    [series |-> EmptyFn,
     clientes |-> EmptyFn, seq_clientes |-> 0,
     ventas |-> EmptyFn, seq_ventas |-> 0,
     venta_items |-> EmptyFn, seq_items |-> 0,
     documentos |-> EmptyFn, seq_documentos |-> 0]

\* ------------------------------------------------------- number format
\* Text is a sequence of one-character strings, so that a formatted number
\* can be taken apart again.
Digit(d) ==
    CASE d = 0 -> "0" [] d = 1 -> "1" [] d = 2 -> "2" [] d = 3 -> "3"
      [] d = 4 -> "4" [] d = 5 -> "5" [] d = 6 -> "6" [] d = 7 -> "7"
      [] d = 8 -> "8" [] d = 9 -> "9"

RECURSIVE DecStr(_)
\* str(n) for n >= 0
DecStr(n) == IF n < 10 THEN <<Digit(n)>> ELSE Append(DecStr(n \div 10), Digit(n % 10))

RECURSIVE Zeros(_)
Zeros(n) == IF n <= 0 THEN <<>> ELSE <<"0">> \o Zeros(n - 1)

Fmt04d_mut(n) == Zeros(3 - Len(DecStr(n))) \o DecStr(n)

\* format(n, "04d") for n >= 0: zero-padded on the left to at least 4 digits
Fmt04d(n) == Zeros(4 - Len(DecStr(n))) \o DecStr(n)

\* prefijos.get(tipo, '')
prefijos(tipo) ==
    CASE tipo = "presupuesto" -> <<"P">>
      [] tipo = "albaran" -> <<"A", "L">>
      [] tipo = "factura" -> <<>>
      [] OTHER -> <<>>

\* f"{prefijo}{serie}-{anio}-{numero:04d}"
formato_numero(tipo, serie, anio, numero) ==
    prefijos(tipo) \o serie \o <<"-">> \o DecStr(anio) \o <<"-">> \o Fmt04d(numero)

\* the value of a decimal digit (-1 for any other character)
DigitVal(c) ==
    CASE c = "0" -> 0 [] c = "1" -> 1 [] c = "2" -> 2 [] c = "3" -> 3
      [] c = "4" -> 4 [] c = "5" -> 5 [] c = "6" -> 6 [] c = "7" -> 7
      [] c = "8" -> 8 [] c = "9" -> 9 [] OTHER -> -1

\* the text is made of decimal digits only
IsDigits(t) == \A i \in 1..Len(t) : DigitVal(t[i]) >= 0

RECURSIVE ParseDec(_)
\* the number a text of decimal digits denotes
ParseDec(t) ==
    IF Len(t) = 0 THEN 0
    ELSE 10 * ParseDec(SubSeq(t, 1, Len(t) - 1)) + DigitVal(t[Len(t)])

\* ------------------------------------------------------------ numbering
SerieKey(tipo, serie, anio) == <<tipo, serie, anio>>

nuevo_numero_mut(series, k) == IF k \in DOMAIN series THEN series[k] ELSE 1

\* the counter of the previous year carried over into a new year
nuevo_numero_cont(series, k) ==
    IF k \in DOMAIN series THEN series[k] + 1
    ELSE IF <<k[1], k[2], k[3] - 1>> \in DOMAIN series
         THEN series[<<k[1], k[2], k[3] - 1>>] + 1
         ELSE 1

\* row['ultimo_numero'] + 1 when the row exists, else 1
nuevo_numero(series, k) == IF k \in DOMAIN series THEN series[k] + 1 ELSE 1

\* the UPDATE (row exists) or INSERT (no row) on table series
escribir_serie(series, k, n) == Upd(series, k, n)

commit_serie_mut(durable, view) == durable

\* self.conn.commit() at the end of obtener_siguiente_numero
commit_serie(durable, view) == view

\* the call for key k comes right after a crash that interrupted a call for k
Reintento(k) == last.op = "crash" /\ k \in last.interrumpida

Anota(k, n) ==
    Upd(returned, k, IF k \in DOMAIN returned THEN Append(returned[k], n) ELSE <<n>>)

\* Database.obtener_siguiente_numero(tipo, serie), run to its return
obtener_siguiente_numero(tipo, serie) ==
    LET k == SerieKey(tipo, serie, year)
        n == nuevo_numero(conn.series, k)
    IN  /\ llamadas.numeracion < MaxLlamadas
        /\ llamadas' = [llamadas EXCEPT !.numeracion = @ + 1]
        /\ conn' = [conn EXCEPT !.series = escribir_serie(@, k, n)]
        /\ db' = commit_serie(db, conn')
        /\ returned' = Anota(k, n)
        /\ last' = [op |-> "obtener_siguiente_numero", tipo |-> tipo, serie |-> serie,
                    anio |-> year, numero |-> n, antes |-> conn.series,
                    primera |-> k \notin iniciadas, reintento |-> Reintento(k)]
        /\ iniciadas' = iniciadas \cup {k}
        /\ UNCHANGED <<year, gui, disco>>

\* Database.obtener_siguiente_numero(tipo, serie) interrupted after the
\* UPDATE/INSERT and before the commit (an exception raised by commit, or the
\* process about to die): the write stays in the open transaction and nothing
\* is returned.
obtener_siguiente_numero_interrumpido(tipo, serie) ==
    LET k == SerieKey(tipo, serie, year)
        n == nuevo_numero(conn.series, k)
    IN  /\ llamadas.numeracion < MaxLlamadas
        /\ llamadas' = [llamadas EXCEPT !.numeracion = @ + 1]
        /\ conn' = [conn EXCEPT !.series = escribir_serie(@, k, n)]
        /\ last' = [op |-> "obtener_siguiente_numero_interrumpido", tipo |-> tipo,
                    serie |-> serie, anio |-> year, numero |-> n, antes |-> conn.series]
        /\ iniciadas' = iniciadas \cup {k}
        /\ UNCHANGED <<year, db, returned, gui, disco>>

\* Database.generar_numero_documento(tipo, serie): the year of the key is read
\* inside obtener_siguiente_numero, the year of the text is read again after
\* it returns; the clock may have moved to the next year in between.
generar_numero_documento(tipo, serie) ==
    \E anio \in {year, year + 1} :
        LET k == SerieKey(tipo, serie, year)
            n == nuevo_numero(conn.series, k)
        IN  /\ llamadas.numeracion < MaxLlamadas
            /\ anio <= Year0 + MaxTicks
            /\ llamadas' = [llamadas EXCEPT !.numeracion = @ + 1]
            /\ conn' = [conn EXCEPT !.series = escribir_serie(@, k, n)]
            /\ db' = commit_serie(db, conn')
            /\ returned' = Anota(k, n)
            /\ year' = anio
            /\ iniciadas' = iniciadas \cup {k}
            /\ UNCHANGED <<gui, disco>>
            /\ last' = [op |-> "generar_numero_documento", tipo |-> tipo, serie |-> serie,
                        anio |-> year, numero |-> n, antes |-> conn.series,
                        primera |-> k \notin iniciadas, reintento |-> Reintento(k),
                        anio_texto |-> anio,
                        texto |-> formato_numero(tipo, serie, anio, n)]

\* --------------------------------------------------------------- clients
\* the lookup done by name instead of by tax ID
cliente_existente_mut(clientes, nif) ==
    {i \in DOMAIN clientes : clientes[i].nombre = "Ana" /\ clientes[i].nif = nif}

\* SELECT id FROM clientes WHERE nif = ? : the ids of the rows with that nif
cliente_existente(clientes, nif) == {i \in DOMAIN clientes : clientes[i].nif = nif}

\* the update of the client carried over to the sales of that tax ID
guardar_cliente_tablas_mut(t, nif, nombre) ==
    LET ex == cliente_existente(t.clientes, nif)
    IN  IF ex # {}
        THEN LET id == CHOOSE i \in ex : \A j \in ex : i <= j
             IN  [t EXCEPT !.clientes[id].nombre = nombre,
                           !.ventas = [v \in DOMAIN @ |->
                               IF @[v].cliente_nif = nif
                               THEN [@[v] EXCEPT !.cliente_nombre = nombre] ELSE @[v]]]
        ELSE [t EXCEPT !.clientes = Upd(@, t.seq_clientes + 1, [nif |-> nif, nombre |-> nombre]),
                       !.seq_clientes = @ + 1]

\* Database.guardar_cliente(cliente_data): update by nif, else insert
guardar_cliente_tablas(t, nif, nombre) ==
    LET ex == cliente_existente(t.clientes, nif)
    IN  IF ex # {}
        THEN LET id == CHOOSE i \in ex : \A j \in ex : i <= j
             IN  [t EXCEPT !.clientes[id].nombre = nombre]
        ELSE [t EXCEPT !.clientes = Upd(@, t.seq_clientes + 1, [nif |-> nif, nombre |-> nombre]),
                       !.seq_clientes = @ + 1]

\* the id guardar_cliente returns
guardar_cliente_id(t, nif) ==
    LET ex == cliente_existente(t.clientes, nif)
    IN  IF ex # {} THEN CHOOSE i \in ex : \A j \in ex : i <= j ELSE t.seq_clientes + 1

guardar_cliente(nif, nombre) ==
    /\ llamadas.almacen < MaxOps
    /\ llamadas' = [llamadas EXCEPT !.almacen = @ + 1]
    /\ conn' = guardar_cliente_tablas(conn, nif, nombre)
    /\ db' = conn'
    /\ last' = [op |-> "guardar_cliente", nif |-> nif, nombre |-> nombre,
                antes |-> conn.clientes,
                id |-> guardar_cliente_id(conn, nif)]
    /\ UNCHANGED <<year, returned, iniciadas, gui, disco>>

\* ----------------------------------------------------------------- sales
estado_inicial_mut(estado) == IF estado = NULL THEN "presupuestado" ELSE estado

\* venta_data.get('estado', 'borrador')
estado_inicial(estado) == IF estado = NULL THEN "borrador" ELSE estado

\* the rows INSERTed into venta_items for the first n items of the list
filas_items(t, venta_id, items, n) ==
    [i \in (DOMAIN t.venta_items) \cup {t.seq_items + j : j \in 1..n} |->
        IF i \in DOMAIN t.venta_items THEN t.venta_items[i]
        ELSE [venta_id |-> venta_id, item |-> items[i - t.seq_items]]]

\* the INSERT into ventas and the INSERTs of the first n items
crear_venta_tablas(t, cliente, estado, totales, items, n) ==
    LET venta_id == t.seq_ventas + 1
    IN  [t EXCEPT !.ventas = Upd(@, venta_id,
                        [cliente_id |-> cliente.id, cliente_nombre |-> cliente.nombre,
                         cliente_nif |-> cliente.nif,
                         base_imponible |-> totales.base_imponible,
                         total_iva |-> totales.total_iva,
                         irpf_porcentaje |-> totales.irpf_porcentaje,
                         total_irpf |-> totales.total_irpf,
                         total |-> totales.total,
                         estado |-> estado_inicial(estado)]),
                  !.seq_ventas = venta_id,
                  !.venta_items = filas_items(t, venta_id, items, n),
                  !.seq_items = @ + n]

\* the documents of a sale, as obtener_venta reads them
documentos_de_venta(t, venta_id) ==
    {d \in DOMAIN t.documentos : t.documentos[d].venta_id = venta_id}

\* Database.crear_venta(venta_data, items); the foreign key on cliente_id
\* makes the INSERT fail when the client does not exist
crear_venta(cliente, estado, totales, items) ==
    /\ llamadas.almacen < MaxOps
    /\ conn.seq_ventas < MaxVentas
    /\ llamadas' = [llamadas EXCEPT !.almacen = @ + 1]
    /\ IF cliente.id \in DOMAIN conn.clientes
       THEN /\ conn' = crear_venta_tablas(conn, cliente, estado, totales, items, Len(items))
            /\ db' = conn'
            /\ last' = [op |-> "crear_venta", error |-> FALSE, venta_id |-> conn.seq_ventas + 1,
                        estado |-> estado, totales |-> totales, items |-> items]
       ELSE /\ UNCHANGED <<conn, db>>
            /\ last' = [op |-> "crear_venta", error |-> TRUE]
    /\ UNCHANGED <<year, returned, iniciadas, gui, disco>>

\* Database.crear_venta interrupted by an exception while inserting item
\* n + 1 (a missing key, a NULL in a NOT NULL column): the sale row and the
\* first n items stay in the open transaction, nothing is committed
crear_venta_interrumpido(cliente, estado, totales, items, n) ==
    /\ llamadas.almacen < MaxOps
    /\ conn.seq_ventas < MaxVentas
    /\ n < Len(items)
    /\ cliente.id \in DOMAIN conn.clientes
    /\ llamadas' = [llamadas EXCEPT !.almacen = @ + 1]
    /\ conn' = crear_venta_tablas(conn, cliente, estado, totales, items, n)
    /\ last' = [op |-> "crear_venta_interrumpido", venta_id |-> conn.seq_ventas + 1]
    /\ UNCHANGED <<year, db, returned, iniciadas, gui, disco>>

\* position of a state in ESTADOS (0 for a text that is not one of them)
Rank(e) ==
    IF \E i \in 1..Len(ESTADOS) : ESTADOS[i] = e
    THEN CHOOSE i \in 1..Len(ESTADOS) : ESTADOS[i] = e
    ELSE 0

aplicar_estado_mut(ventas, venta_id, nuevo_estado) ==
    IF venta_id \in DOMAIN ventas
    THEN [ventas EXCEPT ![venta_id].estado =
              IF @ = nuevo_estado THEN "borrador" ELSE nuevo_estado]
    ELSE ventas

\* UPDATE ventas SET estado = ? WHERE id = ?
aplicar_estado(ventas, venta_id, nuevo_estado) ==
    IF venta_id \in DOMAIN ventas
    THEN [ventas EXCEPT ![venta_id].estado = nuevo_estado]
    ELSE ventas

\* Database.actualizar_estado_venta(venta_id, nuevo_estado)
actualizar_estado_venta(venta_id, nuevo_estado) ==
    /\ llamadas.almacen < MaxOps
    /\ llamadas' = [llamadas EXCEPT !.almacen = @ + 1]
    /\ conn' = [conn EXCEPT !.ventas = aplicar_estado(@, venta_id, nuevo_estado)]
    /\ db' = conn'
    /\ last' = [op |-> "actualizar_estado_venta", venta_id |-> venta_id,
                nuevo_estado |-> nuevo_estado,
                existia |-> venta_id \in DOMAIN conn.ventas,
                estado_antes |-> IF venta_id \in DOMAIN conn.ventas
                                 THEN conn.ventas[venta_id].estado ELSE NULL,
                repetida |-> /\ last.op = "actualizar_estado_venta"
                             /\ last.venta_id = venta_id
                             /\ last.nuevo_estado = nuevo_estado
                             /\ last.avance,
                avance |-> /\ venta_id \in DOMAIN conn.ventas
                           /\ Rank(nuevo_estado) > Rank(conn.ventas[venta_id].estado)]
    /\ UNCHANGED <<year, returned, iniciadas, gui, disco>>

\* the DELETE that also drops the counters of the series
borrar_venta_reinicia(t, venta_id) ==
    [t EXCEPT !.ventas = Del(@, venta_id),
              !.venta_items = [i \in {x \in DOMAIN @ : @[x].venta_id # venta_id} |-> @[i]],
              !.documentos = [d \in {x \in DOMAIN @ : @[x].venta_id # venta_id} |-> @[d]],
              !.series = EmptyFn]

\* the DELETE with no cascade at all
borrar_venta_sin_cascada(t, venta_id) == [t EXCEPT !.ventas = Del(@, venta_id)]

\* the DELETE refused for a sale that is invoiced or paid
borrar_venta_condicional(t, venta_id) ==
    IF venta_id \in DOMAIN t.ventas /\ t.ventas[venta_id].estado \in {"facturado", "pagado"}
    THEN t
    ELSE [t EXCEPT !.ventas = Del(@, venta_id),
                   !.venta_items = [i \in {x \in DOMAIN @ : @[x].venta_id # venta_id} |-> @[i]],
                   !.documentos = [d \in {x \in DOMAIN @ : @[x].venta_id # venta_id} |-> @[d]]]

\* the DELETE without the cascade on documentos
borrar_venta_mut(t, venta_id) ==
    [t EXCEPT !.ventas = Del(@, venta_id),
              !.venta_items = [i \in {x \in DOMAIN @ : @[x].venta_id # venta_id} |-> @[i]]]

\* DELETE FROM ventas WHERE id = ?, with ON DELETE CASCADE on venta_items and
\* documentos (PRAGMA foreign_keys = ON)
borrar_venta(t, venta_id) ==
    [t EXCEPT !.ventas = Del(@, venta_id),
              !.venta_items = [i \in {x \in DOMAIN @ : @[x].venta_id # venta_id} |-> @[i]],
              !.documentos = [d \in {x \in DOMAIN @ : @[x].venta_id # venta_id} |-> @[d]]]

\* the rutas list of eliminar_venta: the non-empty ruta_pdf of the sale's documents
rutas_de_venta(t, venta_id) ==
    {t.documentos[d].ruta_pdf : d \in {x \in documentos_de_venta(t, venta_id) :
                                           t.documentos[x].ruta_pdf # NULL}}

\* the loop over rutas: os.remove when os.path.exists, OSError swallowed
\* (bloqueados: the paths whose removal raises OSError)
borrar_pdfs(archivos, rutas, bloqueados) == archivos \ (rutas \ bloqueados)

\* Database.eliminar_venta(venta_id); the method has no return statement
eliminar_venta(venta_id, bloqueados) ==
    /\ llamadas.almacen < MaxOps
    /\ llamadas' = [llamadas EXCEPT !.almacen = @ + 1]
    /\ conn' = borrar_venta(conn, venta_id)
    /\ db' = conn'
    /\ disco' = borrar_pdfs(disco, rutas_de_venta(conn, venta_id), bloqueados)
    /\ last' = [op |-> "eliminar_venta", venta_id |-> venta_id,
                existia |-> venta_id \in DOMAIN conn.ventas,
                estado_antes |-> IF venta_id \in DOMAIN conn.ventas
                                 THEN conn.ventas[venta_id].estado ELSE NULL,
                series_antes |-> conn.series,
                excepcion |-> NULL,
                rutas |-> rutas_de_venta(conn, venta_id),
                documentos_antes |-> {conn.documentos[d] :
                                         d \in documentos_de_venta(conn, venta_id)},
                en_disco |-> disco, bloqueados |-> bloqueados,
                retorno |-> [tipo |-> "None", valor |-> {}]]
    /\ UNCHANGED <<year, returned, iniciadas, gui>>

\* ------------------------------------------------------------- documents
documento_existente_mut(documentos, venta_id, tipo) ==
    {d \in DOMAIN documentos :
        documentos[d].venta_id = venta_id /\ documentos[d].tipo = tipo
        /\ documentos[d].ruta_pdf # NULL}

\* SELECT id FROM documentos WHERE venta_id = ? AND tipo = ?
documento_existente(documentos, venta_id, tipo) ==
    {d \in DOMAIN documentos :
        documentos[d].venta_id = venta_id /\ documentos[d].tipo = tipo}

\* the UPDATE (row found) or INSERT (no row) of registrar_documento
registrar_documento_tablas(t, venta_id, tipo, doc) ==
    LET ex == documento_existente(t.documentos, venta_id, tipo)
    IN  IF ex # {}
        THEN LET id == CHOOSE i \in ex : \A j \in ex : i <= j
             IN  [t EXCEPT !.documentos[id] =
                      [@ EXCEPT !.numero = doc.numero, !.fecha_emision = doc.fecha_emision,
                                !.ruta_pdf = doc.ruta_pdf]]
        ELSE [t EXCEPT !.documentos = Upd(@, t.seq_documentos + 1,
                            [venta_id |-> venta_id, tipo |-> tipo, numero |-> doc.numero,
                             fecha_emision |-> doc.fecha_emision, ruta_pdf |-> doc.ruta_pdf]),
                       !.seq_documentos = @ + 1]

\* Database.registrar_documento(venta_id, tipo, numero, fecha_emision,
\* fecha_validez, ruta_pdf); the foreign key on venta_id makes the INSERT fail
\* when the sale does not exist
registrar_documento(venta_id, tipo, doc) ==
    /\ llamadas.almacen < MaxOps
    /\ llamadas' = [llamadas EXCEPT !.almacen = @ + 1]
    /\ IF venta_id \in DOMAIN conn.ventas
       THEN /\ conn' = registrar_documento_tablas(conn, venta_id, tipo, doc)
            /\ db' = conn'
            /\ last' = [op |-> "registrar_documento", error |-> FALSE, venta_id |-> venta_id,
                        tipo |-> tipo, doc |-> doc,
                        existente |-> documento_existente(conn.documentos, venta_id, tipo) # {},
                        previos |-> {conn.documentos[d] :
                            d \in documento_existente(conn.documentos, venta_id, tipo)}]
       ELSE /\ UNCHANGED <<conn, db>>
            /\ last' = [op |-> "registrar_documento", error |-> TRUE, venta_id |-> venta_id]
    /\ UNCHANGED <<year, returned, iniciadas, gui, disco>>

\* ----------------------------------------------------------- main window
\* Amounts of money are held exactly, in thousandths of the currency unit,
\* and percentages in tenths of a percent; the rounding of the binary
\* floating point the program computes with is not represented.
milesimas(x) == 1000 * x

\* texto.replace(',', '.')
replace_coma(texto) == [i \in 1..Len(texto) |-> IF texto[i] = "," THEN "." ELSE texto[i]]

\* float(texto), in tenths, for a text of digits with at most one decimal;
\* ok is FALSE where float raises ValueError
float(texto) ==
    IF Len(texto) >= 1 /\ IsDigits(texto)
    THEN [ok |-> TRUE, valor |-> 10 * ParseDec(texto)]
    ELSE IF /\ Len(texto) >= 3
            /\ texto[Len(texto) - 1] = "."
            /\ IsDigits(SubSeq(texto, 1, Len(texto) - 2))
            /\ DigitVal(texto[Len(texto)]) >= 0
         THEN [ok |-> TRUE,
               valor |-> 10 * ParseDec(SubSeq(texto, 1, Len(texto) - 2))
                         + DigitVal(texto[Len(texto)])]
         ELSE [ok |-> FALSE, valor |-> 0]

RECURSIVE sum(_)
\* sum(...) of a sequence of numbers
sum(s) == IF s = <<>> THEN 0 ELSE Head(s) + sum(Tail(s))

\* AplicacionFacturador.actualizar_totales: the four labels of the window
actualizar_totales(items, entry_irpf) ==
    LET base_imponible == sum([i \in 1..Len(items) |-> milesimas(items[i].subtotal)])
        total_iva == sum([i \in 1..Len(items) |->
                             (milesimas(items[i].subtotal) * items[i].iva) \div 100])
        leido == float(replace_coma(entry_irpf))
        irpf_porcentaje == IF leido.ok THEN leido.valor ELSE 0
        total_irpf == (base_imponible * irpf_porcentaje) \div 1000
        total == base_imponible + total_iva - total_irpf
    IN  [base_imponible |-> base_imponible, total_iva |-> total_iva,
         total_irpf |-> total_irpf, total |-> total]

\* the totals with the withholding added instead of subtracted
calcular_totales_mut(items, entry_irpf) ==
    LET base_imponible == sum([i \in 1..Len(items) |-> milesimas(items[i].subtotal)])
        total_iva == sum([i \in 1..Len(items) |->
                             (milesimas(items[i].subtotal) * items[i].iva) \div 100])
        leido == float(replace_coma(entry_irpf))
        irpf_porcentaje == IF leido.ok THEN leido.valor ELSE 0
        total_irpf == (base_imponible * irpf_porcentaje) \div 1000
    IN  [base_imponible |-> base_imponible, total_iva |-> total_iva,
         irpf_porcentaje |-> irpf_porcentaje, total_irpf |-> total_irpf,
         total |-> base_imponible + total_iva + total_irpf]

\* AplicacionFacturador.guardar_y_generar, "Calcular totales": the totals
\* placed in documento_data and datos_pdf
calcular_totales(items, entry_irpf) ==
    LET base_imponible == sum([i \in 1..Len(items) |-> milesimas(items[i].subtotal)])
        total_iva == sum([i \in 1..Len(items) |->
                             (milesimas(items[i].subtotal) * items[i].iva) \div 100])
        leido == float(replace_coma(entry_irpf))
        irpf_porcentaje == IF leido.ok THEN leido.valor ELSE 0
        total_irpf == (base_imponible * irpf_porcentaje) \div 1000
    IN  [base_imponible |-> base_imponible, total_iva |-> total_iva,
         irpf_porcentaje |-> irpf_porcentaje, total_irpf |-> total_irpf,
         total |-> base_imponible + total_iva - total_irpf]

\* the items whose VAT rate is tipo_iva, in the order of the list
items_de_tipo(items, tipo_iva) == SelectSeq(items, LAMBDA item : item.iva = tipo_iva)

\* the breakdown with every rate given the base of the whole list
desglose_iva_mut(items) ==
    [tipo_iva \in {items[i].iva : i \in 1..Len(items)} |->
        [base |-> sum([i \in 1..Len(items) |-> milesimas(items[i].subtotal)]),
         cuota |-> sum([i \in 1..Len(items) |->
                          (milesimas(items[i].subtotal) * tipo_iva) \div 100])]]

\* AplicacionFacturador.guardar_y_generar, "Desglose de IVA": for each rate
\* of the items, the accumulated subtotal and the accumulated subtotal *
\* rate / 100
desglose_iva(items) ==
    [tipo_iva \in {items[i].iva : i \in 1..Len(items)} |->
        LET suyos == items_de_tipo(items, tipo_iva)
        IN  [base |-> sum([i \in 1..Len(suyos) |-> milesimas(suyos[i].subtotal)]),
             cuota |-> sum([i \in 1..Len(suyos) |->
                              (milesimas(suyos[i].subtotal) * tipo_iva) \div 100])]]

\* the value a REAL column gives back for a number stored in it, in tenths
real(x) == 10 * x

\* int(x) of a value in tenths: truncation
int(x) == x \div 10

\* the items list VentanaHistorial._generar_nuevo_pdf builds from the stored
\* rows of a document (filas: the rows, in the order of their ids)
items_de_filas(filas) ==
    [i \in 1..Len(filas) |->
        [descripcion |-> filas[i].item.descripcion, cantidad |-> filas[i].item.cantidad,
         unidad |-> filas[i].item.unidad, precio_unitario |-> filas[i].item.precio_unitario,
         iva |-> real(filas[i].item.iva), subtotal |-> filas[i].item.subtotal]]

\* VentanaHistorial._generar_nuevo_pdf, "Calcular desglose IVA": the same
\* accumulation, keyed by int(item['iva'])
desglose_iva_regenerado(filas) ==
    LET items == items_de_filas(filas)
    IN  [tipo \in {int(items[i].iva) : i \in 1..Len(items)} |->
            LET suyos == SelectSeq(items, LAMBDA item : int(item.iva) = tipo)
            IN  [base |-> sum([i \in 1..Len(suyos) |-> milesimas(suyos[i].subtotal)]),
                 cuota |-> sum([i \in 1..Len(suyos) |->
                                  (milesimas(suyos[i].subtotal) * tipo) \div 100])]]

\* the text of the IRPF entry after nuevo_documento: str(irpf_por_defecto)
irpf_por_defecto == <<"0">>

\* AplicacionFacturador.nuevo_documento: no items, the IRPF entry at its
\* default, and the labels refreshed by actualizar_totales (tecleado: the
\* percentage the text of the entry stands for, in tenths)
nuevo_documento ==
    [items |-> <<>>, entry_irpf |-> irpf_por_defecto, tecleado |-> 0,
     etiquetas |-> actualizar_totales(<<>>, irpf_por_defecto)]

\* the Nuevo button: AplicacionFacturador.nuevo_documento
limpiar_documento ==
    /\ gui # nuevo_documento
    /\ gui' = nuevo_documento
    /\ last' = [op |-> "nuevo_documento"]
    /\ UNCHANGED <<year, db, conn, returned, iniciadas, llamadas, disco>>

\* AplicacionFacturador.añadir_item: the entries hold a description, a
\* quantity, a unit price and a VAT rate; an empty description only warns
anadir_item(entrada) ==
    /\ Len(gui.items) < MaxItems
    /\ IF entrada.descripcion = ""
       THEN /\ gui' = gui
            /\ last' = [op |-> "añadir_item", aviso |-> TRUE, entrada |-> entrada]
       ELSE LET item == [descripcion |-> entrada.descripcion,
                         cantidad |-> entrada.cantidad, unidad |-> "unidad",
                         precio_unitario |-> entrada.precio, iva |-> entrada.iva,
                         subtotal |-> entrada.cantidad * entrada.precio]
                items == Append(gui.items, item)
            IN  /\ gui' = [gui EXCEPT !.items = items,
                                      !.etiquetas = actualizar_totales(items, gui.entry_irpf)]
                /\ last' = [op |-> "añadir_item", aviso |-> FALSE, entrada |-> entrada]
    /\ UNCHANGED <<year, db, conn, returned, iniciadas, llamadas, disco>>

\* AplicacionFacturador.eliminar_item: index is the selected row (0: none)
eliminar_item(index) ==
    /\ IF index = 0 \/ index > Len(gui.items)
       THEN /\ gui' = gui
            /\ last' = [op |-> "eliminar_item", aviso |-> TRUE, index |-> index]
       ELSE LET items == SubSeq(gui.items, 1, index - 1)
                         \o SubSeq(gui.items, index + 1, Len(gui.items))
            IN  /\ gui' = [gui EXCEPT !.items = items,
                                      !.etiquetas = actualizar_totales(items, gui.entry_irpf)]
                /\ last' = [op |-> "eliminar_item", aviso |-> FALSE, index |-> index]
    /\ UNCHANGED <<year, db, conn, returned, iniciadas, llamadas, disco>>

\* a key released in the IRPF entry: the binding calls actualizar_totales
editar_irpf(entrada) ==
    /\ gui.entry_irpf # entrada.texto
    /\ gui' = [gui EXCEPT !.entry_irpf = entrada.texto, !.tecleado = entrada.decimas,
                          !.etiquetas = actualizar_totales(gui.items, entrada.texto)]
    /\ last' = [op |-> "editar_irpf", entrada |-> entrada]
    /\ UNCHANGED <<year, db, conn, returned, iniciadas, llamadas, disco>>

\* str.strip() on the entry texts of the model: a blank text becomes empty
strip(texto) == IF texto = " " THEN "" ELSE texto

\* the validation without the check of the item list
validar_datos_mut(emisor_ok, nombre, nif, items) ==
    emisor_ok /\ strip(nombre) # "" /\ strip(nif) # ""

\* AplicacionFacturador.validar_datos: issuer name and tax ID configured,
\* client name and tax ID filled in, at least one item
validar_datos(emisor_ok, nombre, nif, items) ==
    emisor_ok /\ strip(nombre) # "" /\ strip(nif) # "" /\ items # <<>>

\* the sales in borrador that have no document
borradores_sin_documentos(t) ==
    {v \in DOMAIN t.ventas :
        t.ventas[v].estado = "borrador" /\ documentos_de_venta(t, v) = {}}

\* AplicacionFacturador.guardar_y_generar: after validation the number is
\* generated (and committed), the client is saved (and committed), and the
\* call self.db.guardar_documento raises AttributeError, since Database has no
\* such method: the handler ends there.
guardar_y_generar(emisor_ok, nombre, nif, items, entry_irpf, tipo, serie) ==
    /\ llamadas.numeracion < MaxLlamadas /\ llamadas.almacen < MaxOps
    /\ llamadas' = [numeracion |-> llamadas.numeracion + 1, almacen |-> llamadas.almacen + 1]
    /\ UNCHANGED <<gui, disco>>
    /\ IF ~validar_datos(emisor_ok, nombre, nif, items)
       THEN /\ last' = [op |-> "guardar_y_generar", valido |-> FALSE,
                        emisor_ok |-> emisor_ok, nombre |-> nombre, nif |-> nif,
                        items |-> items, tipo |-> tipo, serie |-> serie]
            /\ UNCHANGED <<year, db, conn, returned, iniciadas>>
       ELSE \E anio \in {year, year + 1} :
            LET k == SerieKey(tipo, serie, year)
                n == nuevo_numero(conn.series, k)
                t1 == [conn EXCEPT !.series = escribir_serie(@, k, n)]
                t2 == guardar_cliente_tablas(t1, strip(nif), strip(nombre))
            IN  /\ anio <= Year0 + MaxTicks
                /\ year' = anio
                /\ conn' = t2
                /\ db' = t2
                /\ returned' = Anota(k, n)
                /\ iniciadas' = iniciadas \cup {k}
                /\ last' = [op |-> "guardar_y_generar", valido |-> TRUE,
                            emisor_ok |-> emisor_ok, nombre |-> nombre, nif |-> nif,
                            items |-> items, tipo |-> tipo,
                            serie |-> serie, anio |-> year, numero |-> n,
                            texto |-> formato_numero(tipo, serie, anio, n),
                            totales |-> calcular_totales(items, entry_irpf),
                            cliente_id |-> guardar_cliente_id(t1, strip(nif)),
                            borradores |-> borradores_sin_documentos(conn),
                            por_entregar |-> {v \in DOMAIN conn.ventas :
                                Rank(conn.ventas[v].estado) < Rank("albaranado")},
                            previa |-> IF /\ last.op = "guardar_y_generar"
                                          /\ last.valido
                                          /\ last.tipo = tipo /\ last.serie = serie
                                          /\ last.nif = nif /\ last.items = items
                                       THEN last.texto ELSE <<>>,
                            pdf |-> FALSE,
                            error |-> "AttributeError"]

\* -------------------------------------------------------- history window
\* the ids of the rows cargar_datos has put in the table of the history
\* window: after clearing the table, its first call,
\* self.db.obtener_documentos_por_tipo, raises AttributeError (Database has
\* no such method), so no row is ever inserted
tree == {}

\* self.tree.selection() when the user looks for the row of a sale
selection(venta_id) == IF venta_id \in tree THEN {venta_id} ELSE {}

\* VentanaHistorial.cambiar_estado(nuevo_estado), from the Aceptar and Pagado
\* buttons, for the sale the user means to mark: with no row selected
\* obtener_documento_seleccionado warns and returns None; with a row it calls
\* self.db.obtener_documento, which Database does not define
cambiar_estado(venta_id, nuevo_estado) ==
    /\ last' = [op |-> "cambiar_estado", venta_id |-> venta_id,
                nuevo_estado |-> nuevo_estado,
                existia |-> venta_id \in DOMAIN conn.ventas,
                estado_antes |-> IF venta_id \in DOMAIN conn.ventas
                                 THEN conn.ventas[venta_id].estado ELSE NULL,
                aviso |-> selection(venta_id) = {},
                error |-> IF selection(venta_id) = {} THEN NULL ELSE "AttributeError"]
    /\ last' # last
    /\ UNCHANGED <<year, db, conn, returned, iniciadas, llamadas, gui, disco>>

\* VentanaHistorial.crear_albaran_desde_presupuesto for the sale the user
\* means (confirma: the answer the user would give to the question about
\* accepting the quote): with no row selected the handler returns after the
\* warning; with a row, self.db.obtener_documento raises AttributeError
crear_albaran_desde_presupuesto(venta_id, confirma) ==
    /\ last' = [op |-> "crear_albaran_desde_presupuesto", venta_id |-> venta_id,
                confirma |-> confirma,
                existia |-> venta_id \in DOMAIN conn.ventas,
                estado_antes |-> IF venta_id \in DOMAIN conn.ventas
                                 THEN conn.ventas[venta_id].estado ELSE NULL,
                presupuestos |-> documento_existente(conn.documentos, venta_id, "presupuesto"),
                aviso |-> selection(venta_id) = {},
                error |-> IF selection(venta_id) = {} THEN NULL ELSE "AttributeError"]
    /\ last' # last
    /\ UNCHANGED <<year, db, conn, returned, iniciadas, llamadas, gui, disco>>

\* ------------------------------------------------------------------ paths
\* DOCUMENTOS_DIR, relative to the directory of the program
DOCUMENTOS_DIR == <<"D", "o", "c", "u", "m", "e", "n", "t", "o", "s">>

\* carpetas_tipo.get(tipo, 'Otros')
carpetas_tipo(tipo) ==
    CASE tipo = "presupuesto" -> <<"P", "r", "e", "s", "u", "p", "u", "e", "s", "t", "o", "s">>
      [] tipo = "albaran" -> <<"A", "l", "b", "a", "r", "a", "n", "e", "s">>
      [] tipo = "factura" -> <<"F", "a", "c", "t", "u", "r", "a", "s">>
      [] OTHER -> <<"O", "t", "r", "o", "s">>

\* numero.replace('/', '-')
replace_barra(numero) ==
    [i \in 1..Len(numero) |-> IF numero[i] = "/" THEN "-" ELSE numero[i]]

\* os.path.join
join(a, b) == a \o <<"/">> \o b

\* the value obtener_ruta_documento(tipo, numero) returns when
\* datetime.now().year is anio
ruta_documento(tipo, numero, anio) ==
    LET carpeta == carpetas_tipo(tipo)
        directorio == join(join(DOCUMENTOS_DIR, carpeta), DecStr(anio))
        nombre_archivo == SubSeq(carpeta, 1, Len(carpeta) - 1) \o <<"_">>
                          \o replace_barra(numero) \o <<".", "p", "d", "f">>
    IN  join(directorio, nombre_archivo)

\* obtener_ruta_documento(tipo, numero): os.makedirs creates the directory,
\* the path is returned
obtener_ruta_documento(tipo, numero) ==
    LET ruta == ruta_documento(tipo, numero, year)
    IN  /\ llamadas.numeracion < MaxLlamadas
        /\ llamadas' = [llamadas EXCEPT !.numeracion = @ + 1]
        /\ returned' = Upd(returned, <<tipo, numero>>,
                           IF <<tipo, numero>> \in DOMAIN returned
                           THEN Append(returned[<<tipo, numero>>], ruta) ELSE <<ruta>>)
        /\ disco' = disco \cup {join(join(DOCUMENTOS_DIR, carpetas_tipo(tipo)), DecStr(year))}
        /\ last' = [op |-> "obtener_ruta_documento", tipo |-> tipo, numero |-> numero,
                    anio |-> year, ruta |-> ruta]
        /\ UNCHANGED <<year, db, conn, iniciadas, gui>>

\* -------------------------------------------------------------- renderer
\* GeneradorPDF.generar_documento(datos, ruta_salida): doc.build writes the
\* file at ruta_salida
generar_documento(ruta) ==
    /\ ruta \notin disco
    /\ disco' = disco \cup {ruta}
    /\ last' = [op |-> "generar_documento", ruta |-> ruta]
    /\ UNCHANGED <<year, db, conn, returned, iniciadas, llamadas, gui>>

\* ---------------------------------------------------------- environment
\* the calendar year changes
Tick ==
    /\ year < Year0 + MaxTicks
    /\ year' = year + 1
    /\ last' = [op |-> "tick"]
    /\ UNCHANGED <<db, conn, returned, iniciadas, llamadas, gui, disco>>

\* the process dies and is started again: the open transaction is rolled
\* back and the window starts empty
Crash ==
    /\ conn # db \/ gui # nuevo_documento
    /\ conn' = db
    /\ gui' = nuevo_documento
    /\ last' = [op |-> "crash",
                interrumpida |-> IF last.op = "obtener_siguiente_numero_interrumpido"
                                 THEN {SerieKey(last.tipo, last.serie, last.anio)} ELSE {}]
    /\ UNCHANGED <<year, db, returned, iniciadas, llamadas, disco>>

\* -------------------------------------------------------- specifications
Init ==
    /\ year = Year0
    /\ db = crear_tablas
    /\ conn = crear_tablas
    /\ returned = EmptyFn
    /\ last = NoOp
    /\ iniciadas = {}
    /\ llamadas = [numeracion |-> 0, almacen |-> 0]
    /\ gui = nuevo_documento
    /\ disco = {}

NextNum ==
    \/ \E tipo \in Tipos, serie \in SeriesCodes : obtener_siguiente_numero(tipo, serie)
    \/ \E tipo \in Tipos, serie \in SeriesCodes : obtener_siguiente_numero_interrumpido(tipo, serie)
    \/ \E tipo \in Tipos, serie \in SeriesCodes : generar_numero_documento(tipo, serie)
    \/ Tick
    \/ Crash

SpecNum == Init /\ [][NextNum]_vars

\* the client records a caller can hold: a stored client, or one that is not
ClientesEntrada ==
    {[id |-> i, nif |-> conn.clientes[i].nif, nombre |-> conn.clientes[i].nombre] :
        i \in DOMAIN conn.clientes}
    \cup {[id |-> 0, nif |-> "N1", nombre |-> "Ana"]}

VentaIds == 1..MaxVentas

\* the paths the document records can hold
RutasPdf == {d.ruta_pdf : d \in DocInputs} \ {NULL}

EstadosSet == {ESTADOS[i] : i \in 1..Len(ESTADOS)}

\* the totals a caller of crear_venta computes for its item list
TotalesVentaData ==
    [items \in ItemsInputs |-> {calcular_totales(items, e) : e \in IrpfVentaData}]

NextVentas ==
    \/ \E nif \in Nifs, nombre \in Nombres : guardar_cliente(nif, nombre)
    \/ \E c \in ClientesEntrada, e \in EstadosVentaData, its \in ItemsInputs :
           \E tot \in TotalesVentaData[its] : crear_venta(c, e, tot, its)
    \/ \E c \in ClientesEntrada, e \in EstadosVentaData, its \in ItemsInputs, n \in 0..1 :
           \E tot \in TotalesVentaData[its] : crear_venta_interrumpido(c, e, tot, its, n)
    \/ \E v \in VentaIds, e \in EstadosSet : actualizar_estado_venta(v, e)
    \/ \E v \in VentaIds, tipo \in Tipos, doc \in DocInputs : registrar_documento(v, tipo, doc)
    \/ \E v \in VentaIds : eliminar_venta(v, {})
    \/ Crash

SpecVentas == Init /\ [][NextVentas]_vars

\* a sale, its documents, their files on disk, and the deletion of the sale
NextBorrado ==
    \/ \E nif \in Nifs : guardar_cliente(nif, "Ana")
    \/ \E c \in ClientesEntrada, e \in EstadosVentaData, its \in ItemsInputs :
           \E tot \in TotalesVentaData[its] : crear_venta(c, e, tot, its)
    \/ \E v \in VentaIds, tipo \in Tipos, doc \in DocInputs : registrar_documento(v, tipo, doc)
    \/ \E r \in RutasPdf : generar_documento(r)
    \/ \E v \in VentaIds, b \in SUBSET RutasPdf : eliminar_venta(v, b)

SpecBorrado == Init /\ [][NextBorrado]_vars

\* the application: the main window's handler on top of the store
Next ==
    \/ \E emisor_ok \in BOOLEAN, nombre \in {"", " ", "Ana"}, nif \in {"", "N1"},
          items \in {<<>>, <<Item1>>}, tipo \in Tipos, serie \in SeriesCodes :
           guardar_y_generar(emisor_ok, nombre, nif, items, irpf_por_defecto, tipo, serie)
    \/ \E c \in ClientesEntrada, e \in EstadosVentaData, its \in ItemsInputs :
           \E tot \in TotalesVentaData[its] : crear_venta(c, e, tot, its)
    \/ \E v \in VentaIds, tipo \in Tipos, doc \in DocInputs : registrar_documento(v, tipo, doc)
    \/ \E v \in VentaIds : eliminar_venta(v, {})
    \/ Tick

Spec == Init /\ [][Next]_vars

\* invoice numbers, the sales that carry them, and the deletion of sales
NextReuso ==
    \/ obtener_siguiente_numero("factura", <<"A">>)
    \/ obtener_siguiente_numero_interrumpido("factura", <<"A">>)
    \/ guardar_cliente("N1", "Ana")
    \/ \E c \in ClientesEntrada :
           \E tot \in TotalesVentaData[<<Item1>>] : crear_venta(c, NULL, tot, <<Item1>>)
    \/ \E v \in VentaIds, doc \in DocInputs : registrar_documento(v, "factura", doc)
    \/ \E v \in VentaIds : eliminar_venta(v, {})

SpecReuso == Init /\ [][NextReuso]_vars

\* clients and the sales that copy their data
NextClientes ==
    \/ \E nif \in Nifs, nombre \in Nombres : guardar_cliente(nif, nombre)
    \/ \E c \in ClientesEntrada :
           \E tot \in TotalesVentaData[<<Item1>>] : crear_venta(c, NULL, tot, <<Item1>>)
    \/ \E c \in ClientesEntrada :
           \E tot \in TotalesVentaData[<<Item1, Item2>>] :
               crear_venta_interrumpido(c, NULL, tot, <<Item1, Item2>>, 1)
    \/ Crash

SpecClientes == Init /\ [][NextClientes]_vars

\* numbers of documents the callers of obtener_ruta_documento pass
NumerosEntrada ==
    {formato_numero("factura", <<"A">>, Year0, 1),
     formato_numero("presupuesto", <<"P", "/", "B">>, Year0, 2)}

\* the paths of the rendered files, over the years
NextRutas ==
    \/ \E tipo \in Tipos, numero \in NumerosEntrada : obtener_ruta_documento(tipo, numero)
    \/ Tick

SpecRutas == Init /\ [][NextRutas]_vars

\* the history window on top of the store
NextHistorial ==
    \/ \E nif \in Nifs : guardar_cliente(nif, "Ana")
    \/ \E c \in ClientesEntrada, its \in ItemsInputs :
           \E tot \in TotalesVentaData[its] : crear_venta(c, NULL, tot, its)
    \/ \E v \in VentaIds, e \in EstadosSet : actualizar_estado_venta(v, e)
    \/ \E v \in VentaIds, e \in {"aceptado", "pagado"} : cambiar_estado(v, e)
    \/ \E v \in VentaIds, doc \in DocInputs : registrar_documento(v, "presupuesto", doc)
    \/ \E v \in VentaIds, confirma \in BOOLEAN : crear_albaran_desde_presupuesto(v, confirma)

SpecHistorial == Init /\ [][NextHistorial]_vars

\* the main window: the item list, the IRPF entry and the save button
NextTotales ==
    \/ \E entrada \in ItemEntradas : anadir_item(entrada)
    \/ \E index \in 0..MaxItems : eliminar_item(index)
    \/ \E entrada \in IrpfEntradas : editar_irpf(entrada)
    \/ limpiar_documento
    \/ \E emisor_ok \in BOOLEAN, nombre \in {"", " ", "Ana"}, nif \in {"", "N1"} :
           guardar_y_generar(emisor_ok, nombre, nif, gui.items, gui.entry_irpf,
                             "factura", <<"A">>)

SpecTotales == Init /\ [][NextTotales]_vars

\* ------------------------------------------------------------ properties
Llamada == {"obtener_siguiente_numero", "generar_numero_documento"}

LastKey == SerieKey(last.tipo, last.serie, last.anio)

\* C1: for every series key (type, series, year), the numbers returned by
\* obtener_siguiente_numero are strictly increasing in the order of the calls,
\* so none is returned twice, also when a call is cut by a crash and retried.
C1_StrictlyIncreasing ==
    \A k \in DOMAIN returned :
        \A i, j \in 1..Len(returned[k]) :
            i < j => returned[k][i] < returned[k][j]

\* a call that retries, after a crash, an interrupted call for a key that had
\* already returned a number
C1_Witness ==
    /\ last.op = "obtener_siguiente_numero"
    /\ last.reintento
    /\ Len(returned[LastKey]) >= 2

\* C2: the increment and its persistence are one step: every number returned
\* to a caller is covered by the durable counter of its key, and the counter
\* the connection sees is never behind the durable one, so a crash between the
\* increment and the commit loses no returned number and the next call cannot
\* return one again.
C2_IncrementIsDurable ==
    \A k \in DOMAIN returned :
        /\ k \in DOMAIN db.series
        /\ k \in DOMAIN conn.series
        /\ returned[k][Len(returned[k])] <= db.series[k]
        /\ db.series[k] <= conn.series[k]

\* a crash between the increment and the commit of a call for a key that had
\* already returned a number
C2_Witness ==
    /\ last.op = "crash"
    /\ \E k \in last.interrumpida : k \in DOMAIN returned

\* C4: the first call made for a (type, series) in a new calendar year
\* returns 1 whatever the last value of the previous year, and leaves every
\* other counter row, the previous year's included, as it was.
C4_NewYearRestartsAtOne ==
    (last.op \in Llamada /\ last.primera) =>
        /\ last.numero = 1
        /\ conn.series[LastKey] = 1
        /\ \A k \in DOMAIN last.antes :
               k # LastKey => conn.series[k] = last.antes[k] /\ db.series[k] = last.antes[k]

\* the first call of the new year, the previous year's counter being at 2 or more
C4_Witness ==
    /\ last.op \in Llamada
    /\ last.primera
    /\ last.anio = Year0 + 1
    /\ last.numero = 1
    /\ SerieKey(last.tipo, last.serie, Year0) \in DOMAIN conn.series
    /\ conn.series[SerieKey(last.tipo, last.serie, Year0)] >= 2

\* reading of a formatted number: the value of a run of decimal digits
\* the prefix table of the claim
C5_Prefijo(tipo) ==
    IF tipo = "presupuesto" THEN <<"P">>
    ELSE IF tipo = "albaran" THEN <<"A", "L">>
    ELSE <<>>

\* the text reads <prefix><series>-<4-digit year>-<4-digit sequence>
TextoBienFormado(t, tipo, serie, numero) ==
    LET b == Len(C5_Prefijo(tipo)) + Len(serie)
    IN  /\ Len(t) = b + 10
        /\ SubSeq(t, 1, Len(C5_Prefijo(tipo))) = C5_Prefijo(tipo)
        /\ SubSeq(t, Len(C5_Prefijo(tipo)) + 1, b) = serie
        /\ t[b + 1] = "-"
        /\ IsDigits(SubSeq(t, b + 2, b + 5))
        /\ t[b + 6] = "-"
        /\ IsDigits(SubSeq(t, b + 7, b + 10))
        /\ ParseDec(SubSeq(t, b + 7, b + 10)) = numero

AnioDelTexto(t, tipo, serie) ==
    LET b == Len(C5_Prefijo(tipo)) + Len(serie)
    IN  ParseDec(SubSeq(t, b + 2, b + 5))

\* C5: generar_numero_documento renders the issued number as
\* <prefix><series>-<year>-<sequence padded to 4 digits>, with prefix P for
\* presupuesto, AL for albaran and none for factura, and the year in the text
\* is the year of the key under which the sequence was issued.
C5_FormatoYAnioDeLaClave ==
    last.op = "generar_numero_documento" =>
        /\ TextoBienFormado(last.texto, last.tipo, last.serie, last.numero)
        /\ AnioDelTexto(last.texto, last.tipo, last.serie) = last.anio

\* C6 as stated: the first quote of series P in 2025 is numbered P-P-2025-0001
C6_Original ==
    (/\ last.op = "generar_numero_documento"
     /\ last.tipo = "presupuesto" /\ last.serie = <<"P">>
     /\ last.anio = 2025 /\ last.anio_texto = 2025
     /\ LastKey \notin DOMAIN last.antes)
    => last.texto = <<"P", "-", "P", "-", "2", "0", "2", "5", "-", "0", "0", "0", "1">>

\* C6 (amended): issuing a quote number for type presupuesto with series code
\* P in year 2025, when no series record exists for that key, yields
\* PP-2025-0001 (prefix P directly followed by the series code P).
C6_PrimerPresupuesto ==
    (/\ last.op = "generar_numero_documento"
     /\ last.tipo = "presupuesto" /\ last.serie = <<"P">>
     /\ last.anio = 2025 /\ last.anio_texto = 2025
     /\ LastKey \notin DOMAIN last.antes)
    => last.texto = <<"P", "P", "-", "2", "0", "2", "5", "-", "0", "0", "0", "1">>

\* the first quote number of series P has just been issued in 2025
C6_Witness ==
    /\ last.op = "generar_numero_documento"
    /\ last.tipo = "presupuesto" /\ last.serie = <<"P">>
    /\ last.anio = 2025 /\ last.anio_texto = 2025
    /\ LastKey \notin DOMAIN last.antes
    /\ last.numero = 1
    /\ year = 2025

\* C3: a series counter is never left incremented without a document record
\* carrying the number issued under it: for every durable counter there is a
\* durable document of that type whose number is the counter's value
\* formatted for that series.
C3_SerieConDocumento ==
    \A k \in DOMAIN db.series :
        \E d \in DOMAIN db.documentos :
            /\ db.documentos[d].tipo = k[1]
            /\ \E a \in {k[3], k[3] + 1} :
                   db.documentos[d].numero = formato_numero(k[1], k[2], a, db.series[k])

\* C7: the rank of a stored sale's state never decreases from one state of
\* the store to the next.
C7_NeverRegresses ==
    [][\A v \in (DOMAIN db.ventas) \cap (DOMAIN db'.ventas) :
           Rank(db'.ventas[v].estado) >= Rank(db.ventas[v].estado)]_vars

\* C8: an update to a state of strictly higher rank sets the sale's state to
\* the target, and the same update done again right after leaves the state as
\* the first update left it.
C8_AdvanceSetsAndIsIdempotent ==
    (last.op = "actualizar_estado_venta" /\ last.existia) =>
        /\ last.avance =>
               /\ conn.ventas[last.venta_id].estado = last.nuevo_estado
               /\ db.ventas[last.venta_id].estado = last.nuevo_estado
        /\ last.repetida =>
               /\ conn.ventas[last.venta_id].estado = last.estado_antes
               /\ db.ventas[last.venta_id].estado = last.estado_antes

\* the same advance has just been done a second time
C8_Witness ==
    /\ last.op = "actualizar_estado_venta"
    /\ last.existia
    /\ last.repetida
    /\ last.estado_antes = last.nuevo_estado

\* C9 as stated: every sale crear_venta creates starts in borrador with no
\* document records.
C9_Original ==
    (last.op = "crear_venta" /\ ~last.error) =>
        /\ conn.ventas[last.venta_id].estado = "borrador"
        /\ documentos_de_venta(conn, last.venta_id) = {}

\* C9 (amended): a sale created through crear_venta has no document records
\* right after creation and starts in the state given by venta_data['estado'],
\* which is borrador when venta_data has no such entry.
C9_EstadoInicialSinDocumentos ==
    (last.op = "crear_venta" /\ ~last.error) =>
        /\ last.estado = NULL => /\ conn.ventas[last.venta_id].estado = "borrador"
                                 /\ db.ventas[last.venta_id].estado = "borrador"
        /\ last.estado # NULL => conn.ventas[last.venta_id].estado = last.estado
        /\ documentos_de_venta(conn, last.venta_id) = {}
        /\ documentos_de_venta(db, last.venta_id) = {}

\* a sale has just been created without an estado entry, in a store that
\* already holds a document record
C9_Witness ==
    /\ last.op = "crear_venta"
    /\ ~last.error
    /\ last.estado = NULL
    /\ last.venta_id \in DOMAIN db.ventas
    /\ db.seq_documentos >= 1

\* C10: there is at most one document record per (sale, document type), in
\* the durable tables and in the connection's view.
C10_UnDocumentoPorTipo ==
    \A t \in {db, conn} :
        \A d1, d2 \in DOMAIN t.documentos :
            (/\ t.documentos[d1].venta_id = t.documentos[d2].venta_id
             /\ t.documentos[d1].tipo = t.documentos[d2].tipo) => d1 = d2

\* a document has just been registered for a (sale, type) that already had one
C10_Witness ==
    /\ last.op = "registrar_documento"
    /\ ~last.error
    /\ last.existente
    /\ documento_existente(db.documentos, last.venta_id, last.tipo) # {}

\* C11 as stated: registering a document type again for a sale that already
\* has it keeps the number and the issuance date of the first issuance.
C11_ReusesNumberAndDate ==
    (last.op = "registrar_documento" /\ ~last.error /\ last.existente) =>
        \A d \in documento_existente(db.documentos, last.venta_id, last.tipo) :
            \A p \in last.previos :
                /\ db.documentos[d].numero = p.numero
                /\ db.documentos[d].fecha_emision = p.fecha_emision

\* the rows of a table that belong to a sale
FilasDeVenta(tabla, v) == {i \in DOMAIN tabla : tabla[i].venta_id = v}

\* the sale of the last eliminar_venta and all its rows are gone
VentaBorrada ==
    \A t \in {db, conn} :
        /\ last.venta_id \notin DOMAIN t.ventas
        /\ FilasDeVenta(t.venta_items, last.venta_id) = {}
        /\ FilasDeVenta(t.documentos, last.venta_id) = {}

\* the paths the sale's document records referenced before the deletion
RutasReferenciadas == {p.ruta_pdf : p \in last.documentos_antes} \ {NULL}

\* C12 as stated: eliminar_venta removes the sale, its items and its document
\* records and returns the set of file paths those records referenced.
C12_Original ==
    (last.op = "eliminar_venta" /\ last.existia) =>
        /\ VentaBorrada
        /\ last.retorno.tipo = "list"
        /\ last.retorno.valor = RutasReferenciadas

\* C12 (amended): eliminar_venta removes the sale, all its line items and all
\* its document records; it returns nothing, and removes itself from disk the
\* file at every non-empty path those records referenced, unless the removal
\* of that file fails.
C12_BorraFilasYArchivos ==
    (last.op = "eliminar_venta" /\ last.existia) =>
        /\ VentaBorrada
        /\ last.retorno.tipo = "None"
        /\ last.rutas = RutasReferenciadas
        /\ \A r \in RutasReferenciadas : r \notin last.bloqueados => r \notin disco
        /\ \A r \in last.en_disco : (r \notin RutasReferenciadas \/ r \in last.bloqueados) => r \in disco

\* a sale with items and with a document whose file was on disk has just been
\* deleted, and the file with it
C12_Witness ==
    /\ last.op = "eliminar_venta"
    /\ last.existia
    /\ RutasReferenciadas # {}
    /\ RutasReferenciadas \subseteq last.en_disco
    /\ last.bloqueados = {}
    /\ disco = {}
    /\ db.seq_items >= 1

RECURSIVE SumaBase(_, _)
\* the sum of the subtotals of the item rows with the given ids, in thousandths
SumaBase(tabla, ids) ==
    IF ids = {} THEN 0
    ELSE LET i == CHOOSE x \in ids : TRUE
         IN  1000 * tabla[i].item.subtotal + SumaBase(tabla, ids \ {i})

RECURSIVE SumaIva(_, _)
\* the sum of subtotal x rate / 100 over those rows, in thousandths
SumaIva(tabla, ids) ==
    IF ids = {} THEN 0
    ELSE LET i == CHOOSE x \in ids : TRUE
         IN  10 * tabla[i].item.subtotal * tabla[i].item.iva + SumaIva(tabla, ids \ {i})

\* C13 as stated: for every persisted sale the stored total is stored base +
\* stored VAT - stored withholding, and the stored base, VAT and withholding
\* are the ones recomputed from the sale's stored items and percentage.
C13_NoDrift ==
    \A v \in DOMAIN db.ventas :
        LET r == db.ventas[v]
            ids == FilasDeVenta(db.venta_items, v)
            base == SumaBase(db.venta_items, ids)
        IN  /\ r.total = r.base_imponible + r.total_iva - r.total_irpf
            /\ r.base_imponible = base
            /\ r.total_iva = SumaIva(db.venta_items, ids)
            /\ 1000 * r.total_irpf = base * r.irpf_porcentaje

RECURSIVE SumaHasta(_, _)
\* s[1] + ... + s[n]
SumaHasta(s, n) == IF n = 0 THEN 0 ELSE SumaHasta(s, n - 1) + s[n]

\* the totals of the claim for the items of the window and the percentage
\* the user typed: base = sum of quantity x unit price, VAT = sum of
\* subtotal x rate / 100, withholding = base x percentage / 100, all in
\* thousandths (the percentage in tenths)
C14_Esperado ==
    LET its == gui.items
        n == Len(its)
        base == SumaHasta([i \in 1..n |-> its[i].cantidad * its[i].precio_unitario], n)
        iva == SumaHasta([i \in 1..n |->
                   its[i].cantidad * its[i].precio_unitario * its[i].iva], n)
    IN  [base_imponible |-> 1000 * base, total_iva |-> 10 * iva,
         total_irpf |-> base * gui.tecleado,
         total |-> 1000 * base + 10 * iva - base * gui.tecleado]

\* C14: for every item list and withholding percentage of the window, the
\* totals on screen (actualizar_totales) and the totals saved
\* (guardar_y_generar) are both base = sum of quantity x unit price,
\* vat_total = sum of subtotal x rate / 100, withholding = base x percentage
\* / 100 and total = base + vat_total - withholding (exact arithmetic).
C14_TotalesIguales ==
    /\ gui.etiquetas = C14_Esperado
    /\ (last.op = "guardar_y_generar" /\ last.valido) =>
        /\ last.items = gui.items
        /\ last.totales.irpf_porcentaje = gui.tecleado
        /\ last.totales.base_imponible = C14_Esperado.base_imponible
        /\ last.totales.total_iva = C14_Esperado.total_iva
        /\ last.totales.total_irpf = C14_Esperado.total_irpf
        /\ last.totales.total = C14_Esperado.total

\* a document with two items of different VAT rates and a withholding of 7,5
\* per cent has just been saved
C14_Witness ==
    /\ last.op = "guardar_y_generar"
    /\ last.valido
    /\ Len(gui.items) = 2
    /\ gui.items[1].iva # gui.items[2].iva
    /\ gui.tecleado = 75
    /\ last.totales.total_irpf > 0
    /\ last.totales.total = gui.etiquetas.total

\* C17 as stated: no row of a sale becomes persistent except by a crear_venta
\* call that completed for that sale, with all the items the call was given.
C17_CreationIsAtomic ==
    [][\A v \in (DOMAIN db'.ventas) \ (DOMAIN db.ventas) :
           /\ last'.op = "crear_venta"
           /\ ~last'.error
           /\ last'.venta_id = v
           /\ Cardinality(FilasDeVenta(db'.venta_items, v)) = Len(last'.items)]_vars

\* the inputs of the last guardar_y_generar lack the issuer's data, the
\* client's name or tax ID, or the items
C15_Incompleto(l) ==
    \/ ~l.emisor_ok
    \/ l.nombre \in {"", " "}
    \/ l.nif \in {"", " "}
    \/ Len(l.items) = 0

\* C15: when guardar_y_generar is called with a missing issuer, a missing
\* client name or tax ID, or an empty item list, the call changes no series
\* counter and no client, sale, item or document record, durable or pending,
\* and issues no number.
C15_ValidationBeforePersistence ==
    [][(last'.op = "guardar_y_generar" /\ C15_Incompleto(last')) =>
           /\ db' = db
           /\ conn' = conn
           /\ returned' = returned
           /\ ~last'.valido]_vars

\* a save with an empty item list has just been refused, on a store that
\* already holds a series counter and a client
C15_Witness ==
    /\ last.op = "guardar_y_generar"
    /\ ~last.valido
    /\ last.emisor_ok /\ last.nombre = "Ana" /\ last.nif = "N1"
    /\ last.items = <<>>
    /\ DOMAIN db.series # {}
    /\ DOMAIN db.clientes # {}

\* C16 as stated: a request that ended without a rendered file either has
\* consumed no number, or the next request for the same document uses the
\* number already issued (previa: the number the same request was given just
\* before, when it consumed one and ended without a file).
C16_RetryKeepsNumber ==
    (last.op = "guardar_y_generar" /\ last.valido /\ ~last.pdf /\ last.previa # <<>>) =>
        last.texto = last.previa

\* C18 as stated: with a sale in borrador without documents, requesting an
\* invoice issues an invoice number, records the invoice document of the sale
\* and leaves the sale in facturado.
C18_DirectInvoice ==
    (/\ last.op = "guardar_y_generar"
     /\ last.valido
     /\ last.tipo = "factura"
     /\ last.borradores # {}) =>
        \E v \in last.borradores :
            /\ v \in DOMAIN db.ventas
            /\ db.ventas[v].estado = "facturado"
            /\ \E d \in documentos_de_venta(db, v) :
                   /\ db.documentos[d].tipo = "factura"
                   /\ db.documentos[d].numero = last.texto

C20_UnClientePorNif ==
    /\ \A t \in {db, conn} :
           \A a, b \in DOMAIN t.clientes :
               t.clientes[a].nif = t.clientes[b].nif => a = b
    /\ last.op = "guardar_cliente" =>
           LET previos == {c \in DOMAIN last.antes : last.antes[c].nif = last.nif}
           IN  /\ db.clientes = conn.clientes
               /\ last.id \in DOMAIN db.clientes
               /\ db.clientes[last.id] = [nif |-> last.nif, nombre |-> last.nombre]
               /\ \A c \in DOMAIN last.antes :
                      c # last.id => (c \in DOMAIN db.clientes /\ db.clientes[c] = last.antes[c])
               /\ IF previos # {}
                  THEN /\ previos = {last.id}
                       /\ DOMAIN db.clientes = DOMAIN last.antes
                  ELSE /\ last.id \notin DOMAIN last.antes
                       /\ DOMAIN db.clientes = (DOMAIN last.antes) \cup {last.id}

\* guardar_cliente has just been called with the tax ID of a stored client
\* and another name, with a second client in the table
C20_Witness ==
    /\ last.op = "guardar_cliente"
    /\ \E c \in DOMAIN last.antes :
           /\ last.antes[c].nif = last.nif
           /\ last.antes[c].nombre # last.nombre
           /\ last.id = c
    /\ Cardinality(DOMAIN db.clientes) = 2

\* C21: a guardar_cliente call leaves every sale already persisted in place,
\* with the client name and tax ID it was created with, also when the call
\* updates the record of that sale's client.
C21_ClientSnapshot ==
    [][last'.op = "guardar_cliente" =>
           \A v \in DOMAIN db.ventas :
               /\ v \in DOMAIN db'.ventas
               /\ db'.ventas[v].cliente_nombre = db.ventas[v].cliente_nombre
               /\ db'.ventas[v].cliente_nif = db.ventas[v].cliente_nif
               /\ db'.ventas[v].cliente_id = db.ventas[v].cliente_id]_vars

\* the client of a persisted sale has just been renamed, and the sale keeps
\* the name it was created with
C21_Witness ==
    /\ last.op = "guardar_cliente"
    /\ \E v \in DOMAIN db.ventas :
           /\ db.ventas[v].cliente_id = last.id
           /\ db.ventas[v].cliente_nif = last.nif
           /\ db.ventas[v].cliente_nombre # last.nombre
           /\ db.clientes[last.id].nombre = last.nombre

\* C22: in the durable tables and in the connection's view, every item row
\* and every document row refers to a sale that exists; a registration that
\* succeeded was for an existing sale, and one that failed created nothing.
C22_ForeignKeys ==
    /\ \A t \in {db, conn} :
           /\ \A i \in DOMAIN t.venta_items : t.venta_items[i].venta_id \in DOMAIN t.ventas
           /\ \A d \in DOMAIN t.documentos : t.documentos[d].venta_id \in DOMAIN t.ventas
    /\ last.op = "registrar_documento" =>
           IF last.error
           THEN /\ last.venta_id \notin DOMAIN conn.ventas
                /\ FilasDeVenta(conn.documentos, last.venta_id) = {}
                /\ FilasDeVenta(db.documentos, last.venta_id) = {}
           ELSE last.venta_id \in DOMAIN db.ventas

\* a sale that had items and a document has just been deleted
C22_Witness ==
    /\ last.op = "eliminar_venta"
    /\ last.existia
    /\ last.documentos_antes # {}
    /\ db.seq_items >= 1
    /\ db.seq_documentos >= 1
    /\ DOMAIN db.documentos = {}
    /\ DOMAIN db.venta_items = {}

\* C23 as stated: a call returns 1 and stores 1 when the key has no record,
\* returns and stores n + 1 when the record holds n, and for every key that
\* has returned a number the stored value is the number returned last.
C23_StoredIsLastReturned ==
    /\ last.op \in Llamada =>
           /\ last.numero = IF LastKey \in DOMAIN last.antes
                            THEN last.antes[LastKey] + 1 ELSE 1
           /\ db.series[LastKey] = last.numero
    /\ \A k \in DOMAIN returned :
           db.series[k] = returned[k][Len(returned[k])]

\* C26: eliminar_venta always ends with the sale, its items and its documents
\* gone from the durable tables, whatever the sale's state and whichever
\* removals of files fail, and no exception reaches the caller.
C26_DeletionNeverBlocked ==
    last.op = "eliminar_venta" =>
        /\ VentaBorrada
        /\ db = conn
        /\ last.excepcion = NULL

\* an invoiced sale whose document's file could not be removed has just been
\* deleted: the file is still on disk, the rows are gone
C26_Witness ==
    /\ last.op = "eliminar_venta"
    /\ last.existia
    /\ last.estado_antes = "facturado"
    /\ RutasReferenciadas # {}
    /\ RutasReferenciadas \subseteq last.en_disco
    /\ RutasReferenciadas \subseteq last.bloqueados
    /\ RutasReferenciadas \subseteq disco

\* C30 as stated: a call changes the counter of its own key only, and the
\* numbers returned for each key are 1, 2, 3, ... without gaps.
C30_IndependentGapFree ==
    /\ last.op \in Llamada =>
           \A k \in (DOMAIN conn.series) \cup (DOMAIN last.antes) :
               k # LastKey => (/\ k \in DOMAIN last.antes
                               /\ k \in DOMAIN conn.series
                               /\ conn.series[k] = last.antes[k])
    /\ \A k \in DOMAIN returned :
           \A i \in 1..Len(returned[k]) : returned[k][i] = i

\* C24 as stated: a delivery note requested for a sale that has a quote and
\* is not yet accepted goes on only with the caller's confirmation:
\* confirmed, the sale is marked accepted; declined, nothing changes.
C24_ConfirmationGate ==
    (/\ last.op = "crear_albaran_desde_presupuesto"
     /\ last.existia
     /\ last.presupuestos # {}
     /\ Rank(last.estado_antes) < Rank("aceptado")) =>
        IF last.confirma
        THEN db.ventas[last.venta_id].estado = "aceptado"
        ELSE /\ db.ventas[last.venta_id].estado = last.estado_antes
             /\ gui = nuevo_documento

\* C25 as stated: saving a delivery note while a sale is below albaranado
\* records the delivery note for such a sale and leaves it in albaranado,
\* and marks no sale as invoiced.
C25_DeliveryNoteAdvances ==
    (/\ last.op = "guardar_y_generar"
     /\ last.valido
     /\ last.tipo = "albaran"
     /\ last.por_entregar # {}) =>
        /\ \E v \in last.por_entregar :
               /\ v \in DOMAIN db.ventas
               /\ db.ventas[v].estado = "albaranado"
               /\ \E d \in documentos_de_venta(db, v) :
                      /\ db.documentos[d].tipo = "albaran"
                      /\ db.documentos[d].numero = last.texto
        /\ \A v \in last.por_entregar :
               v \in DOMAIN db.ventas => db.ventas[v].estado # "facturado"

\* the rows the INSERTs of crear_venta make for the items of the window
C27_Filas == [i \in 1..Len(gui.items) |-> [venta_id |-> 1, item |-> gui.items[i]]]

\* the rates of the items of the window
C27_Tipos == {gui.items[i].iva : i \in 1..Len(gui.items)}

RECURSIVE C27_Suma(_, _, _)
\* the sum of campo ("base" or "cuota") of a breakdown over a set of rates
C27_Suma(d, tipos, campo) ==
    IF tipos = {} THEN 0
    ELSE LET t == CHOOSE x \in tipos : TRUE
         IN  d[t][campo] + C27_Suma(d, tipos \ {t}, campo)

C28_SamePath ==
    \A k \in DOMAIN returned :
        \A i, j \in 1..Len(returned[k]) : returned[k][i] = returned[k][j]

\* C29: eliminar_venta leaves every series counter as the connection reads
\* it, and what it commits is that same table; no counter is behind the last
\* number returned for its key and no number is returned twice for a key, so
\* the numbers of a deleted sale's documents are not issued again.
C29_NoReuseAfterDeletion ==
    /\ last.op = "eliminar_venta" =>
           /\ conn.series = last.series_antes
           /\ db.series = conn.series
    /\ \A k \in DOMAIN returned :
           /\ k \in DOMAIN conn.series
           /\ conn.series[k] >= returned[k][Len(returned[k])]
           /\ \A i, j \in 1..Len(returned[k]) : i # j => returned[k][i] # returned[k][j]

\* the sale whose invoice carries the number issued last has just been
\* deleted, and the counter still holds that number
C29_Witness ==
    /\ last.op = "eliminar_venta"
    /\ last.existia
    /\ <<"factura", <<"A">>, Year0>> \in DOMAIN returned
    /\ LET k == <<"factura", <<"A">>, Year0>>
           n == returned[k][Len(returned[k])]
       IN  /\ \E p \in last.documentos_antes :
                  p.tipo = "factura" /\ p.numero = formato_numero("factura", <<"A">>, Year0, n)
           /\ db.series[k] = n
    /\ DOMAIN db.documentos = {}

====
